---- MODULE Spec2Model ----
(***************************************************************************)
(* Model of the functional core of the TV writer overlap explorer:         *)
(*   webapp/src/core/overlap.ts   grouping, enrichment, pairwise overlap    *)
(*   webapp/src/core/graph.ts     node ids, bipartite graph                 *)
(*   webapp/src/components/VennDiagram.tsx  selection and N-way regions     *)
(* The snapshot (shows, writers, links) is read-only; every operation      *)
(* stores what it returned in `out`, the Venn component keeps its          *)
(* selection in `selectedIds` and its rendered regions in `intersections`; *)
(* `args` holds the arguments of a helper that is called on its own.       *)
(***************************************************************************)
EXTENDS Integers, Sequences, FiniteSets, TLC

VARIABLES shows, writers, links, selectedIds, intersections, args, out

vars == <<shows, writers, links, selectedIds, intersections, args, out>>

(***************************************************************************)
(* Bounds of the model.                                                    *)
(***************************************************************************)
MaxShows == 2
MaxWriters == 2
MaxLinks == 3
GraphLinks == 2
ExclLinks == 2
VennShows == 4
VennWriters == 2
VennLinks == 3
OverlapShows == 3
OverlapWriters == 2
OverlapLinks == 3
MaxNodeId == 120
MaxTailLen == 3
FilterNodes == 2
FilterEdges == 2
StatNodes == 2
StatEdges == 2
StatShows == 5
StatWriters == 6
StatLinks == 15
FindShows == 2
FindWriters == 2
FindLinks == 4
SharedWriters == 2
CallShows == 2
CallLinks == 2
SelectShows == 6
BothLinks == 4
RegionLinks == 4

(***************************************************************************)
(* Generic helpers.                                                        *)
(***************************************************************************)
BoundedSeq(S, n) == UNION {[1..k -> S] : k \in 0..n}

Range(s) == {s[k] : k \in DOMAIN s}

\* Array.prototype.map over an index-addressed sequence.
MapSeq(s, F(_)) == [k \in DOMAIN s |-> F(s[k])] \o <<>>

\* The value `undefined` returned by Map.get for an absent key.
Undefined == [undefined |-> TRUE]

\* `null` of an optional number is the empty option, a present n is <<n>>.
Null == <<>>

Some(n) == <<n>>

EpisodeCounts == {Null, Some(0), Some(2)}

(***************************************************************************)
(* Domain types (core/types.ts).                                           *)
(***************************************************************************)
ShowTitles ==
  <<"Show A", "Show B", "Show C", "Show D", "Show E", "Show F", "Show G">>

WriterNames ==
  <<"Writer One", "Writer Two", "Writer Three", "Writer Four",
    "Writer Five", "Writer Six", "Writer Seven">>

Show(i) ==
  [id |-> i, imdbId |-> <<"tt", i>>, title |-> ShowTitles[i],
   yearStart |-> Some(2000 + i), yearEnd |-> Null]

Writer(i) ==
  [id |-> i, imdbId |-> <<"nm", i>>, name |-> WriterNames[i]]

ShowWriterLink(s, w, e) ==
  [showId |-> s, writerId |-> w, role |-> Null, episodeCount |-> e]

(***************************************************************************)
(* JavaScript Map: entries <<key, value>> kept in insertion order.         *)
(***************************************************************************)
MapHas(m, key) == \E k \in DOMAIN m : m[k][1] = key

MapGet(m, key) == m[CHOOSE k \in DOMAIN m : m[k][1] = key][2]

MapSet(m, key, value) ==
  IF MapHas(m, key)
    THEN [k \in DOMAIN m |-> IF m[k][1] = key THEN <<key, value>> ELSE m[k]]
    ELSE Append(m, <<key, value>>)

RECURSIVE MapFromEntries(_, _, _)
MapFromEntries(entries, k, m) ==
  IF k > Len(entries) THEN m
  ELSE MapFromEntries(entries, k + 1, MapSet(m, entries[k][1], entries[k][2]))

\* new Map(entities.map(e => [e.id, e]))
EntityMap(entities) ==
  MapFromEntries(MapSeq(entities, LAMBDA e : <<e.id, e>>), 1, <<>>)

\* map.get(id): the entity, or undefined
EntityGet(m, id) == IF MapHas(m, id) THEN MapGet(m, id) ELSE Undefined

\* Defined without the filter: unresolved lookups stay in the list.
DefinedKeepAll(s) == s

\* .filter(x => x !== undefined)
Defined(s) == SelectSeq(s, LAMBDA x : x # Undefined)

(***************************************************************************)
(* core/overlap.ts                                                         *)
(***************************************************************************)
RECURSIVE groupLinksByWriterLoop(_, _, _)
groupLinksByWriterLoop(ls, k, grouped) ==
  IF k > Len(ls) THEN grouped
  ELSE LET link == ls[k]
           existing == IF MapHas(grouped, link.writerId)
                         THEN MapGet(grouped, link.writerId) ELSE <<>>
       IN groupLinksByWriterLoop(ls, k + 1,
            MapSet(grouped, link.writerId, existing \o <<link>>))

groupLinksByWriter(ls) == groupLinksByWriterLoop(ls, 1, <<>>)

\* groupLinksByShow that puts each link in front: [link, ...existing].
RECURSIVE groupLinksByShowPrepend(_, _, _)
groupLinksByShowPrepend(ls, k, grouped) ==
  IF k > Len(ls) THEN grouped
  ELSE LET link == ls[k]
           existing == IF MapHas(grouped, link.showId)
                         THEN MapGet(grouped, link.showId) ELSE <<>>
       IN groupLinksByShowPrepend(ls, k + 1,
            MapSet(grouped, link.showId, <<link>> \o existing))

RECURSIVE groupLinksByShowLoop(_, _, _)
groupLinksByShowLoop(ls, k, grouped) ==
  IF k > Len(ls) THEN grouped
  ELSE LET link == ls[k]
           existing == IF MapHas(grouped, link.showId)
                         THEN MapGet(grouped, link.showId) ELSE <<>>
       IN groupLinksByShowLoop(ls, k + 1,
            MapSet(grouped, link.showId, existing \o <<link>>))

groupLinksByShow(ls) == groupLinksByShowLoop(ls, 1, <<>>)

\* [...new Set(ids)] with the Set left out: every id stays in the list.
UniqueKeepAll(ids) == ids

\* [...new Set(ids)]: the first occurrence of each id, in order
Unique(ids) ==
  LET firsts == SelectSeq([k \in 1..Len(ids) |-> k],
                          LAMBDA k : \A j \in 1..(k - 1) : ids[j] # ids[k])
  IN [k \in DOMAIN firsts |-> ids[firsts[k]]] \o <<>>

\* overlaps.sort(...) left out: the list stays in insertion order.
SortedByShowCountKeepOrder(overlaps) == overlaps

\* overlaps.sort((a, b) => b.showCount - a.showCount): Array.prototype.sort
\* is stable, so each entry comes after the entries before it in the list
\* whose showCount is not smaller and after all entries whose showCount is
\* greater.
SortedByShowCount(overlaps) ==
  LET Before(i, j) ==
        \/ overlaps[i].showCount > overlaps[j].showCount
        \/ (overlaps[i].showCount = overlaps[j].showCount /\ i < j)
      place == [i \in DOMAIN overlaps |->
                  1 + Cardinality({j \in DOMAIN overlaps : Before(j, i)})]
  IN [p \in DOMAIN overlaps |->
        overlaps[CHOOSE i \in DOMAIN overlaps : place[i] = p]] \o <<>>

\* the loop over the entries of linksByWriter
RECURSIVE overlapsLoop(_, _, _, _, _)
overlapsLoop(linksByWriter, k, writerMap, showMap, overlaps) ==
  IF k > Len(linksByWriter) THEN overlaps
  ELSE LET writerId == linksByWriter[k][1]
           writerLinks == linksByWriter[k][2]
           uniqueShowIds == Unique(MapSeq(writerLinks, LAMBDA l : l.showId))
           writer == EntityGet(writerMap, writerId)
           writerShows ==
             Defined(MapSeq(uniqueShowIds, LAMBDA id : EntityGet(showMap, id)))
       IN overlapsLoop(linksByWriter, k + 1, writerMap, showMap,
            IF Len(uniqueShowIds) > 1 /\ writer # Undefined
              THEN Append(overlaps,
                     [writer |-> writer, shows |-> writerShows,
                      showCount |-> Len(writerShows)])
              ELSE overlaps)

findOverlappingWriters(ws, ss, ls) ==
  SortedByShowCount(
    overlapsLoop(groupLinksByWriter(ls), 1, EntityMap(ws), EntityMap(ss),
                 <<>>))

\* Extend without the spread: only the id and the derived list survive.
ExtendIdOnly(entity, field, value) ==
  (field :> value) @@ ("id" :> entity.id)

\* { ...entity, [field]: value }
Extend(entity, field, value) == (field :> value) @@ entity

enrichWritersWithShows(ws, ss, ls) ==
  LET showMap == EntityMap(ss)
      linksByWriter == groupLinksByWriter(ls)
  IN MapSeq(ws, LAMBDA writer :
       LET writerLinks == IF MapHas(linksByWriter, writer.id)
                            THEN MapGet(linksByWriter, writer.id) ELSE <<>>
           writerShows == Defined(MapSeq(writerLinks,
                            LAMBDA l : EntityGet(showMap, l.showId)))
       IN Extend(writer, "shows", writerShows))

enrichShowsWithWriters(ss, ws, ls) ==
  LET writerMap == EntityMap(ws)
      linksByShow == groupLinksByShow(ls)
  IN MapSeq(ss, LAMBDA show :
       LET showLinks == IF MapHas(linksByShow, show.id)
                          THEN MapGet(linksByShow, show.id) ELSE <<>>
           showWriters == Defined(MapSeq(showLinks,
                            LAMBDA l : EntityGet(writerMap, l.writerId)))
       IN Extend(show, "writers", showWriters))

\* new Set(list.map(w => w.id))
IdSet(list) == {list[k].id : k \in DOMAIN list}

\* countSharedWriters over distinct ids: duplicates of showB collapse.
countSharedWritersDistinct(showA, showB) ==
  Cardinality(IdSet(showA.writers) \cap IdSet(showB.writers))

countSharedWriters(showA, showB) ==
  LET writerIdsA == IdSet(showA.writers)
  IN Len(SelectSeq(showB.writers, LAMBDA w : w.id \in writerIdsA))

\* getSharedWriters that filters the list of showA by the ids of showB.
getSharedWritersOfA(showA, showB) ==
  LET writerIdsB == IdSet(showB.writers)
  IN SelectSeq(showA.writers, LAMBDA w : w.id \in writerIdsB)

getSharedWriters(showA, showB) ==
  LET writerIdsA == IdSet(showA.writers)
  IN SelectSeq(showB.writers, LAMBDA w : w.id \in writerIdsA)

createOverlapMatrix(ess) ==
  MapSeq(ess, LAMBDA showA :
    MapSeq(ess, LAMBDA showB : countSharedWriters(showA, showB)))

(***************************************************************************)
(* core/graph.ts                                                           *)
(* A string is the sequence of its characters.                             *)
(***************************************************************************)
DigitChars == <<"0", "1", "2", "3", "4", "5", "6", "7", "8", "9">>

RECURSIVE DecimalDigits(_)
DecimalDigits(n) ==
  IF n < 10 THEN <<DigitChars[n + 1]>>
  ELSE DecimalDigits(n \div 10) \o <<DigitChars[(n % 10) + 1]>>

\* `${id}` of an integer
NumberToString(n) ==
  IF n < 0 THEN <<"-">> \o DecimalDigits(0 - n) ELSE DecimalDigits(n)

TypeChars ==
  [show |-> <<"s", "h", "o", "w">>,
   writer |-> <<"w", "r", "i", "t", "e", "r">>]

createNodeId(type, id) == TypeChars[type] \o <<"-">> \o NumberToString(id)

\* the value `null` where an object is expected
NullObject == [null |-> TRUE]

\* the characters \d matches
Digits == Range(DigitChars)

DigitValue(c) == (CHOOSE k \in DOMAIN DigitChars : DigitChars[k] = c) - 1

\* parseInt(digits, 10) of a non-empty run of decimal digits
RECURSIVE parseInt(_)
parseInt(digits) ==
  IF Len(digits) = 0 THEN 0
  ELSE parseInt(SubSeq(digits, 1, Len(digits) - 1)) * 10
         + DigitValue(digits[Len(digits)])

\* nodeId.match(/^(show|writer)-(\d+)$/): the captures <<match[1], match[2]>>
\* of the match; the empty set when the pattern does not match.
NodeIdMatch(nodeId) ==
  {m \in {<<type, SubSeq(nodeId, Len(TypeChars[type]) + 2, Len(nodeId))>> :
            type \in {"show", "writer"}} :
     /\ nodeId = TypeChars[m[1]] \o <<"-">> \o m[2]
     /\ Len(m[2]) >= 1
     /\ \A k \in DOMAIN m[2] : m[2][k] \in Digits}

\* parseNodeId with the pattern /^(show|writer)-(\d)$/: one digit only.
parseNodeIdOneDigit(nodeId) ==
  LET match == {m \in NodeIdMatch(nodeId) : Len(m[2]) = 1}
  IN IF match = {} THEN NullObject
     ELSE LET m == CHOOSE x \in match : TRUE
          IN [type |-> m[1], id |-> parseInt(m[2])]

\* parseNodeId with the pattern /^(show|writer)-(\d+)/, not anchored at the
\* end: whatever follows the first run of digits is ignored.
parseNodeIdUnanchored(nodeId) ==
  LET match == UNION {NodeIdMatch(SubSeq(nodeId, 1, n)) : n \in 1..Len(nodeId)}
  IN IF match = {} THEN NullObject
     ELSE LET m == CHOOSE x \in match : \A y \in match : Len(y[2]) <= Len(x[2])
          IN [type |-> m[1], id |-> parseInt(m[2])]

parseNodeId(nodeId) ==
  LET match == NodeIdMatch(nodeId)
  IN IF match = {} THEN NullObject
     ELSE LET m == CHOOSE x \in match : TRUE
          IN [type |-> m[1], id |-> parseInt(m[2])]

\* buildBipartiteGraph that keeps only the links whose two ends are nodes.
buildBipartiteGraphResolved(ss, ws, ls) ==
  LET resolved == SelectSeq(ls, LAMBDA link :
                    /\ link.showId \in IdSet(ss)
                    /\ link.writerId \in IdSet(ws))
  IN [nodes |-> MapSeq(ss, LAMBDA show :
                  [id |-> createNodeId("show", show.id), type |-> "show",
                   label |-> show.title, data |-> show])
                \o MapSeq(ws, LAMBDA writer :
                  [id |-> createNodeId("writer", writer.id),
                   type |-> "writer", label |-> writer.name,
                   data |-> writer]),
      edges |-> MapSeq(resolved, LAMBDA link :
                  [source |-> createNodeId("writer", link.writerId),
                   target |-> createNodeId("show", link.showId),
                   weight |-> IF link.episodeCount = Null
                                THEN 1 ELSE link.episodeCount[1]])]

\* buildBipartiteGraph with `link.episodeCount || 1`: a count of 0 falls back
\* to the default weight as well.
buildBipartiteGraphTruthy(ss, ws, ls) ==
  [nodes |-> MapSeq(ss, LAMBDA show :
               [id |-> createNodeId("show", show.id), type |-> "show",
                label |-> show.title, data |-> show])
             \o MapSeq(ws, LAMBDA writer :
               [id |-> createNodeId("writer", writer.id),
                type |-> "writer", label |-> writer.name,
                data |-> writer]),
   edges |-> MapSeq(ls, LAMBDA link :
               [source |-> createNodeId("writer", link.writerId),
                target |-> createNodeId("show", link.showId),
                weight |-> IF link.episodeCount = Null
                             THEN 1
                             ELSE IF link.episodeCount[1] = 0
                               THEN 1 ELSE link.episodeCount[1]])]

buildBipartiteGraph(ss, ws, ls) ==
  LET showNodes == MapSeq(ss, LAMBDA show :
                     [id |-> createNodeId("show", show.id), type |-> "show",
                      label |-> show.title, data |-> show])
      writerNodes == MapSeq(ws, LAMBDA writer :
                       [id |-> createNodeId("writer", writer.id),
                        type |-> "writer", label |-> writer.name,
                        data |-> writer])
      edges == MapSeq(ls, LAMBDA link :
                 [source |-> createNodeId("writer", link.writerId),
                  target |-> createNodeId("show", link.showId),
                  weight |-> IF link.episodeCount = Null
                               THEN 1 ELSE link.episodeCount[1]])
  IN [nodes |-> showNodes \o writerNodes, edges |-> edges]

\* the nested loops over i < j of buildShowOverlapGraph
RECURSIVE OverlapEdgesLoop(_, _, _, _)
OverlapEdgesLoop(es, i, j, edges) ==
  IF i > Len(es) THEN edges
  ELSE IF j > Len(es) THEN OverlapEdgesLoop(es, i + 1, i + 2, edges)
  ELSE LET shared == getSharedWriters(es[i], es[j])
       IN OverlapEdgesLoop(es, i, j + 1,
            IF Len(shared) > 0
              THEN Append(edges,
                     [source |-> createNodeId("show", es[i].id),
                      target |-> createNodeId("show", es[j].id),
                      weight |-> Len(shared)])
              ELSE edges)

buildShowOverlapGraph(ss, ws, ls) ==
  LET es == enrichShowsWithWriters(ss, ws, ls)
      nodes == MapSeq(es, LAMBDA show :
                 [id |-> createNodeId("show", show.id), type |-> "show",
                  label |-> show.title, data |-> show])
  IN [nodes |-> nodes, edges |-> OverlapEdgesLoop(es, 1, 2, <<>>)]

\* the Set connectedIds of filterConnectedNodes
connectedIds(edges) ==
  UNION {{edges[k].source, edges[k].target} : k \in DOMAIN edges}

\* filterConnectedNodes that does not count a self-loop as a connection.
filterConnectedNodesNoLoops(graph) ==
  LET ids == connectedIds(SelectSeq(graph.edges,
                            LAMBDA edge : edge.source # edge.target))
  IN [nodes |-> SelectSeq(graph.nodes, LAMBDA node : node.id \in ids),
      edges |-> graph.edges]

\* filterConnectedNodes that collects the nodes edge by edge: a node is
\* listed once for every edge it ends.
filterConnectedNodesPerEdge(graph) ==
  LET nodesOf[k \in 0..Len(graph.edges)] ==
        IF k = 0 THEN <<>>
        ELSE nodesOf[k - 1] \o
               SelectSeq(graph.nodes, LAMBDA node :
                 node.id \in {graph.edges[k].source, graph.edges[k].target})
  IN [nodes |-> nodesOf[Len(graph.edges)], edges |-> graph.edges]

\* filterConnectedNodes that adds only edge.source to connectedIds.
filterConnectedNodesSourceOnly(graph) ==
  LET ids == {graph.edges[k].source : k \in DOMAIN graph.edges}
  IN [nodes |-> SelectSeq(graph.nodes, LAMBDA node : node.id \in ids),
      edges |-> graph.edges]

filterConnectedNodes(graph) ==
  LET ids == connectedIds(graph.edges)
  IN [nodes |-> SelectSeq(graph.nodes, LAMBDA node : node.id \in ids),
      edges |-> graph.edges]

\* filterByWeight with `e.weight > minWeight`.
filterByWeightStrict(graph, minWeight) ==
  LET filteredEdges ==
        SelectSeq(graph.edges, LAMBDA e : e.weight > minWeight)
  IN filterConnectedNodes([graph EXCEPT !.edges = filteredEdges])

\* filterByWeight with `e.weight <= minWeight`.
filterByWeightAtMost(graph, minWeight) ==
  LET filteredEdges ==
        SelectSeq(graph.edges, LAMBDA e : e.weight <= minWeight)
  IN filterConnectedNodes([graph EXCEPT !.edges = filteredEdges])

\* filterByWeight that drops the unconnected nodes before it drops the
\* light edges.
filterByWeightNodesFirst(graph, minWeight) ==
  LET connected == filterConnectedNodes(graph)
  IN [connected EXCEPT
        !.edges = SelectSeq(graph.edges, LAMBDA e : e.weight >= minWeight)]

filterByWeight(graph, minWeight) ==
  LET filteredEdges ==
        SelectSeq(graph.edges, LAMBDA e : e.weight >= minWeight)
  IN filterConnectedNodes([graph EXCEPT !.edges = filteredEdges])

(***************************************************************************)
(* JavaScript numbers (IEEE-754 binary64), as far as computeGraphStats     *)
(* needs them.  A non-negative number is zero, or a significand of 53 bits *)
(* with the exponent of its leading bit; the significand is kept as its    *)
(* leading 1 followed by four digits of 13 bits each.                      *)
(***************************************************************************)
LimbBase == 8192

DoubleZero == [zero |-> TRUE]

\* a / b scaled by a power of two into <<n, d>> with d <= n < 2 * d
RECURSIVE Scaled(_, _)
Scaled(a, b) ==
  IF a >= 2 * b THEN Scaled(a, 2 * b)
  ELSE IF a < b THEN Scaled(2 * a, b)
  ELSE <<a, b>>

\* the exponent of the leading bit of a / b
RECURSIVE LeadingExponent(_, _)
LeadingExponent(a, b) ==
  IF a >= 2 * b THEN LeadingExponent(a, 2 * b) + 1
  ELSE IF a < b THEN LeadingExponent(2 * a, b) - 1
  ELSE 0

\* long division of r / d (r < d): the next n digits and the remainder
RECURSIVE QuotientDigits(_, _, _, _)
QuotientDigits(r, d, n, digits) ==
  IF n = 0 THEN [digits |-> digits, rest |-> r]
  ELSE QuotientDigits((r * LimbBase) % d, d, n - 1,
                      Append(digits, (r * LimbBase) \div d))

\* round to nearest, ties to even: the significand is rounded up when `up`
\* holds; a carry out of the top gives the next power of two
Rounded(limbs, exp, up) ==
  IF ~up THEN [limbs |-> limbs, exp |-> exp]
  ELSE LET open == {k \in DOMAIN limbs : k = 1 \/ limbs[k] < LimbBase - 1}
           last == CHOOSE k \in open : \A j \in open : j <= k
           sum == [k \in DOMAIN limbs |->
                     IF k < last THEN limbs[k]
                     ELSE IF k = last THEN limbs[k] + 1 ELSE 0]
       IN IF sum[1] = 2
            THEN [limbs |-> [k \in DOMAIN limbs |-> IF k = 1 THEN 1 ELSE 0],
                  exp |-> exp + 1]
            ELSE [limbs |-> sum, exp |-> exp]

\* the number a / b for integers a >= 0, b >= 1
Divide(a, b) ==
  IF a = 0 THEN DoubleZero
  ELSE LET s == Scaled(a, b)
           q == QuotientDigits(s[1] - s[2], s[2], 4, <<1>>)
       IN Rounded(q.digits, LeadingExponent(a, b),
                  \/ 2 * q.rest > s[2]
                  \/ (2 * q.rest = s[2] /\ q.digits[5] % 2 = 1))

(***************************************************************************)
(* core/graph.ts: computeGraphStats                                        *)
(***************************************************************************)
MaxOf(S) == CHOOSE x \in S : \A y \in S : y <= x

\* Math.max(...weights) without the leading 0: the largest weight, and 0
\* only for a graph without edges.
maxWeightUnfloored(edges) ==
  IF Len(edges) = 0 THEN 0
  ELSE MaxOf({edges[k].weight : k \in DOMAIN edges})

\* Math.max(0, ...graph.edges.map(e => e.weight))
maxWeightOf(edges) == MaxOf({0} \cup {edges[k].weight : k \in DOMAIN edges})

\* degrees.get(id) ?? 0
DegreeGet(degrees, id) == IF MapHas(degrees, id) THEN MapGet(degrees, id) ELSE 0

\* the loop that fills the Map degrees
RECURSIVE degreesLoop(_, _, _)
degreesLoop(edges, k, degrees) ==
  IF k > Len(edges) THEN degrees
  ELSE LET edge == edges[k]
           bySource == MapSet(degrees, edge.source,
                              DegreeGet(degrees, edge.source) + 1) \o <<>>
           byTarget == MapSet(bySource, edge.target,
                              DegreeGet(bySource, edge.target) + 1) \o <<>>
       IN degreesLoop(edges, k + 1, byTarget)

\* [...degrees.values()].reduce((a, b) => a + b, 0)
RECURSIVE SumValues(_, _, _)
SumValues(degrees, k, sum) ==
  IF k > Len(degrees) THEN sum
  ELSE SumValues(degrees, k + 1, sum + degrees[k][2])

\* avgDegree where the degree of an id that is no node of the graph is
\* left out of the sum.
avgDegreeOfNodes(graph) ==
  LET degrees == SelectSeq(degreesLoop(graph.edges, 1, <<>>),
                           LAMBDA entry : entry[1] \in IdSet(graph.nodes))
  IN IF Len(graph.nodes) > 0
       THEN Divide(SumValues(degrees, 1, 0), Len(graph.nodes))
       ELSE DoubleZero

avgDegreeOf(graph) ==
  LET degrees == degreesLoop(graph.edges, 1, <<>>)
  IN IF Len(graph.nodes) > 0
       THEN Divide(SumValues(degrees, 1, 0), Len(graph.nodes))
       ELSE DoubleZero

computeGraphStats(graph) ==
  [nodeCount |-> Len(graph.nodes),
   edgeCount |-> Len(graph.edges),
   showCount |-> Len(SelectSeq(graph.nodes, LAMBDA n : n.type = "show")),
   writerCount |-> Len(SelectSeq(graph.nodes, LAMBDA n : n.type = "writer")),
   avgDegree |-> avgDegreeOf(graph),
   maxWeight |-> maxWeightOf(graph.edges)]

(***************************************************************************)
(* components/VennDiagram.tsx                                              *)
(***************************************************************************)
MaxSelected == 5

\* enrichedShows.filter(s => selectedIds.includes(s.id))
selectedShowsOf(ess, ids) == SelectSeq(ess, LAMBDA s : s.id \in Range(ids))

\* toggleShow without the capacity branch
toggleShowUncapped(prev, id) ==
  IF id \in Range(prev) THEN SelectSeq(prev, LAMBDA x : x # id)
  ELSE Append(prev, id)

\* the updater toggleShow hands to setSelectedIds
toggleShow(prev, id) ==
  IF id \in Range(prev) THEN SelectSeq(prev, LAMBDA x : x # id)
  ELSE IF Len(prev) >= MaxSelected THEN Append(Tail(prev), id)
  ELSE Append(prev, id)

\* the updater the onAddToVenn fallback hands to setSelectedIds
addToVenn(prev, showId) ==
  IF showId \in Range(prev) THEN prev
  ELSE IF Len(prev) >= MaxSelected THEN Append(Tail(prev), showId)
  ELSE Append(prev, showId)

\* otherShows.flatMap(s => s.writers.map(w => w.id)) as a Set
AllWriterIds(ss) == UNION {IdSet(ss[k].writers) : k \in DOMAIN ss}

\* getUniqueWriters without the filter: every writer of the show
getUniqueWritersOwn(show, otherShows) == show.writers

getUniqueWriters(show, otherShows) ==
  LET otherWriterIds == AllWriterIds(otherShows)
  IN SelectSeq(show.writers, LAMBDA w : w.id \notin otherWriterIds)

\* array.filter((_, idx) => Keep(idx)), idx counted from 1
FilterByIndex(s, Keep(_)) ==
  LET idxs == SelectSeq([k \in 1..Len(s) |-> k], Keep)
  IN [k \in DOMAIN idxs |-> s[idxs[k]]] \o <<>>

RECURSIVE IntersectLoop(_, _, _)
IntersectLoop(showsIn, i, shared) ==
  IF i > Len(showsIn) THEN shared
  ELSE LET writerIds == IdSet(showsIn[i].writers)
       IN IntersectLoop(showsIn, i + 1,
            SelectSeq(shared, LAMBDA w : w.id \in writerIds))

\* the exclusion loop left out: the "out" shows are ignored
ExcludeNothing(showsOut, k, shared) == shared

RECURSIVE ExcludeLoop(_, _, _)
ExcludeLoop(showsOut, k, shared) ==
  IF k > Len(showsOut) THEN shared
  ELSE LET writerIds == IdSet(showsOut[k].writers)
       IN ExcludeLoop(showsOut, k + 1,
            SelectSeq(shared, LAMBDA w : w.id \notin writerIds))

getExclusiveSharedWriters(showsIn, showsOut) ==
  IF Len(showsIn) = 0 THEN <<>>
  ELSE ExcludeLoop(showsOut, 1, IntersectLoop(showsIn, 2, showsIn[1].writers))

AllShowsKey == <<"a", "l", "l", "-", "s", "h", "o", "w", "s">>

\* the nested loops over i < j of getIntersections
RECURSIVE PairwiseLoop(_, _, _, _)
PairwiseLoop(sel, i, j, result) ==
  IF i > Len(sel) THEN result
  ELSE IF j > Len(sel) THEN PairwiseLoop(sel, i + 1, i + 2, result)
  ELSE LET showsIn == <<sel[i], sel[j]>>
           showsOut == FilterByIndex(sel, LAMBDA idx : idx # i /\ idx # j)
           ws == getExclusiveSharedWriters(showsIn, showsOut)
       IN PairwiseLoop(sel, i, j + 1,
            IF Len(ws) > 0
              THEN Append(result,
                     [shows |-> showsIn, writers |-> ws,
                      key |-> NumberToString(sel[i].id) \o <<"-">>
                                \o NumberToString(sel[j].id)])
              ELSE result)

\* getIntersections without the region of all selected shows
getIntersectionsPairsOnly(sel) ==
  IF Len(sel) < 2 THEN <<>> ELSE PairwiseLoop(sel, 1, 2, <<>>)

getIntersections(sel) ==
  IF Len(sel) < 2 THEN <<>>
  ELSE LET pairs == PairwiseLoop(sel, 1, 2, <<>>)
           allSharedWriters == getExclusiveSharedWriters(sel, <<>>)
       IN IF Len(sel) >= 3 /\ Len(allSharedWriters) > 0
            THEN Append(pairs, [shows |-> sel, writers |-> allSharedWriters,
                                key |-> AllShowsKey])
            ELSE pairs

\* getCirclePositions without the geometry: one circle per selected show
\* with the writers shown as unique to it
getCirclePositions(sel) ==
  IF Len(sel) = 0 THEN <<>>
  ELSE IF Len(sel) = 1
    THEN <<[show |-> sel[1], uniqueWriters |-> sel[1].writers]>>
  ELSE [i \in DOMAIN sel |->
          [show |-> sel[i],
           uniqueWriters |->
             getUniqueWriters(sel[i],
               FilterByIndex(sel, LAMBDA idx : idx # i))]] \o <<>>

(***************************************************************************)
(* The first version of getIntersections (unnamed/part_008), which spells  *)
(* out the selections of two and of three shows.                           *)
(***************************************************************************)
\* `${a.id}-${b.id}`
PairKey(a, b) == NumberToString(a.id) \o <<"-">> \o NumberToString(b.id)

AllThreeKey == <<"a", "l", "l", "-", "t", "h", "r", "e", "e">>

\* result.push(region) under `if (region.writers.length > 0)`
PushNonEmpty(result, region) ==
  IF Len(region.writers) > 0 THEN Append(result, region) ELSE result

\* ws.filter(w => !show.writers.some(w2 => w2.id === w.id))
NotOn(ws, show) == SelectSeq(ws, LAMBDA w : w.id \notin IdSet(show.writers))

\* ws.filter(w => show.writers.some(w2 => w2.id === w.id))
AlsoOn(ws, show) == SelectSeq(ws, LAMBDA w : w.id \in IdSet(show.writers))

getIntersectionsPiecewise(sel) ==
  IF Len(sel) < 2 THEN <<>>
  ELSE IF Len(sel) = 2
    THEN PushNonEmpty(<<>>,
           [shows |-> <<sel[1], sel[2]>>,
            writers |-> getSharedWriters(sel[1], sel[2]),
            key |-> PairKey(sel[1], sel[2])])
  ELSE IF Len(sel) = 3
    THEN LET ab == getSharedWriters(sel[1], sel[2])
             ac == getSharedWriters(sel[1], sel[3])
             bc == getSharedWriters(sel[2], sel[3])
             r1 == PushNonEmpty(<<>>,
                     [shows |-> <<sel[1], sel[2]>>,
                      writers |-> NotOn(ab, sel[3]),
                      key |-> PairKey(sel[1], sel[2])])
             r2 == PushNonEmpty(r1,
                     [shows |-> <<sel[1], sel[3]>>,
                      writers |-> NotOn(ac, sel[2]),
                      key |-> PairKey(sel[1], sel[3])])
             r3 == PushNonEmpty(r2,
                     [shows |-> <<sel[2], sel[3]>>,
                      writers |-> NotOn(bc, sel[1]),
                      key |-> PairKey(sel[2], sel[3])])
         IN PushNonEmpty(r3,
              [shows |-> sel, writers |-> AlsoOn(ab, sel[3]),
               key |-> AllThreeKey])
  ELSE <<>>

(***************************************************************************)
(* App.tsx                                                                 *)
(***************************************************************************)
\* the updater handleAddToVenn hands to setVennSelectedIds
handleAddToVenn(prev, showId) ==
  IF showId \in Range(prev) THEN prev
  ELSE IF Len(prev) >= MaxSelected THEN Append(Tail(prev), showId)
  ELSE Append(prev, showId)

(***************************************************************************)
(* State machine.                                                          *)
(* A run is one computation over a snapshot: the snapshot is drawn in the  *)
(* initial state and `out` receives what the called function returns.      *)
(***************************************************************************)
Table(n, Entity(_)) == [i \in 1..n |-> Entity(i)]

LinkSet(ns, nw, eps) ==
  {ShowWriterLink(s, w, e) : s \in 1..ns, w \in 1..nw, e \in eps}

\* Sequences over S without a repeated element.
InjectiveSeq(S) ==
  {s \in BoundedSeq(S, Cardinality(S)) :
     \A i \in DOMAIN s : \A j \in DOMAIN s : i # j => s[i] # s[j]}

NoOut == [op |-> "none"]

NoArgs == [op |-> "none"]

\* The snapshot the ingestion collaborator supplies: shows and writers with
\* unique ids, links that may repeat a pair and may reference absent ids.
Snapshot(maxLinks, eps) ==
  /\ \E n \in 0..MaxShows : shows = Table(n, Show)
  /\ \E n \in 0..MaxWriters : writers = Table(n, Writer)
  /\ links \in BoundedSeq(LinkSet(MaxShows, MaxWriters, eps), maxLinks)

Init ==
  /\ Snapshot(MaxLinks, {Null})
  /\ selectedIds = <<>>
  /\ intersections = <<>>
  /\ args = NoArgs
  /\ out = NoOut

Frame == UNCHANGED <<shows, writers, links, selectedIds, intersections, args>>

EnrichShows ==
  /\ out = NoOut
  /\ out' = [op |-> "enrichShowsWithWriters",
             val |-> enrichShowsWithWriters(shows, writers, links)]
  /\ Frame

EnrichWriters ==
  /\ out = NoOut
  /\ out' = [op |-> "enrichWritersWithShows",
             val |-> enrichWritersWithShows(writers, shows, links)]
  /\ Frame

\* MatrixHeatmap: the matrix of the enriched shows of the snapshot
OverlapMatrix ==
  /\ out = NoOut
  /\ \E ess \in {enrichShowsWithWriters(shows, writers, links)} :
       out' = [op |-> "createOverlapMatrix", works |-> ess,
               val |-> createOverlapMatrix(ess)]
  /\ Frame

Next ==
  \/ EnrichShows
  \/ EnrichWriters
  \/ OverlapMatrix

Spec == Init /\ [][Next]_vars

(***************************************************************************)
(* findOverlappingWriters over a snapshot whose links name the shows       *)
(* FindShowIds and the writers FindWriterIds, present or not.              *)
(***************************************************************************)
FindShowIds == 1..3

FindWriterIds == 1..2

InitFind ==
  /\ \E n \in 0..FindShows : shows = Table(n, Show)
  /\ \E n \in 0..FindWriters : writers = Table(n, Writer)
  /\ links \in BoundedSeq({ShowWriterLink(s, w, Null) :
                             s \in FindShowIds, w \in FindWriterIds},
                          FindLinks)
  /\ selectedIds = <<>>
  /\ intersections = <<>>
  /\ args = NoArgs
  /\ out = NoOut

FindOverlapping ==
  /\ out = NoOut
  /\ out' = [op |-> "findOverlappingWriters",
             val |-> findOverlappingWriters(writers, shows, links)]
  /\ Frame

NextFind == FindOverlapping

SpecFind == InitFind /\ [][NextFind]_vars

(***************************************************************************)
(* getSharedWriters called on two enriched shows whose writer lists hold   *)
(* up to SharedWriters objects; one writer exists in two versions.         *)
(***************************************************************************)
WriterObjects ==
  {Writer(1), Writer(2), Extend(Writer(1), "bio", "Bio in B")}

InitShared ==
  /\ shows = <<>>
  /\ writers = <<>>
  /\ links = <<>>
  /\ selectedIds = <<>>
  /\ intersections = <<>>
  /\ \E wa \in BoundedSeq(WriterObjects, SharedWriters) :
       \E wb \in BoundedSeq(WriterObjects, SharedWriters) :
         args = [op |-> "getSharedWriters",
                 showA |-> Extend(Show(1), "writers", wa),
                 showB |-> Extend(Show(2), "writers", wb)]
  /\ out = NoOut

SharedWritersOf ==
  /\ out = NoOut
  /\ args.op = "getSharedWriters"
  /\ out' = [op |-> "getSharedWriters",
             val |-> getSharedWriters(args.showA, args.showB)]
  /\ Frame

NextShared == SharedWritersOf

SpecShared == InitShared /\ [][NextShared]_vars

(***************************************************************************)
(* Any sequence of calls of the core operations on one snapshot.  The      *)
(* operations are synchronous, so calls of several computations interleave *)
(* as whole calls.  `args` keeps the snapshot as it was supplied.          *)
(***************************************************************************)
CoreOps ==
  {"groupLinksByWriter", "groupLinksByShow", "enrichWritersWithShows",
   "enrichShowsWithWriters", "findOverlappingWriters", "createOverlapMatrix",
   "buildBipartiteGraph", "buildShowOverlapGraph", "filterConnectedNodes",
   "filterByWeight", "computeGraphStats"}

\* What a core operation returns for the snapshot; the matrix takes the
\* enriched shows and the filters and the statistics take a built graph.
CoreResult(op, ss, ws, ls) ==
  CASE op = "groupLinksByWriter" -> groupLinksByWriter(ls)
    [] op = "groupLinksByShow" -> groupLinksByShow(ls)
    [] op = "enrichWritersWithShows" -> enrichWritersWithShows(ws, ss, ls)
    [] op = "enrichShowsWithWriters" -> enrichShowsWithWriters(ss, ws, ls)
    [] op = "findOverlappingWriters" -> findOverlappingWriters(ws, ss, ls)
    [] op = "createOverlapMatrix" ->
         createOverlapMatrix(enrichShowsWithWriters(ss, ws, ls))
    [] op = "buildBipartiteGraph" -> buildBipartiteGraph(ss, ws, ls)
    [] op = "buildShowOverlapGraph" -> buildShowOverlapGraph(ss, ws, ls)
    [] op = "filterConnectedNodes" ->
         filterConnectedNodes(buildBipartiteGraph(ss, ws, ls))
    [] op = "filterByWeight" ->
         filterByWeight(buildShowOverlapGraph(ss, ws, ls), 1)
    [] op = "computeGraphStats" ->
         computeGraphStats(buildBipartiteGraph(ss, ws, ls))

CallShowIds == 1..2

CallWriterIds == 1..2

InitCalls ==
  /\ \E n \in 0..CallShows : shows = Table(n, Show)
  /\ \E n \in 0..Cardinality(CallWriterIds) : writers = Table(n, Writer)
  /\ links \in BoundedSeq({ShowWriterLink(s, w, Null) :
                             s \in CallShowIds, w \in CallWriterIds},
                          CallLinks)
  /\ selectedIds = <<>>
  /\ intersections = <<>>
  /\ args = [op |-> "snapshot", shows |-> shows, writers |-> writers,
             links |-> links]
  /\ out = NoOut

\* A call that writes the derived list onto the show objects it was given
\* instead of onto copies.
CoreCallInPlace ==
  \E op \in CoreOps :
    /\ out' = [op |-> op, val |-> CoreResult(op, shows, writers, links),
               after |-> out.op]
    /\ shows' = IF op = "enrichShowsWithWriters"
                  THEN enrichShowsWithWriters(shows, writers, links)
                  ELSE shows
    /\ UNCHANGED <<writers, links, selectedIds, intersections, args>>

\* One call: the operations read their parameters with for-of, map, filter
\* and spread, and sort, push and set only arrays and maps they created.
CoreCall ==
  \E op \in CoreOps :
    /\ out' = [op |-> op, val |-> CoreResult(op, shows, writers, links),
               after |-> out.op]
    /\ Frame

NextCalls == CoreCall

SpecCalls == InitCalls /\ [][NextCalls]_vars

(***************************************************************************)
(* The selection of the Venn view: clicks on the show buttons and          *)
(* add-to-Venn requests, starting from the empty selection.  `out` keeps   *)
(* the last request and the selection it found.                            *)
(***************************************************************************)
InitSelect ==
  /\ shows = Table(SelectShows, Show)
  /\ writers = <<>>
  /\ links = <<>>
  /\ selectedIds = <<>>
  /\ intersections = <<>>
  /\ args = NoArgs
  /\ out = NoOut

\* a click on the button of a show
ClickShow ==
  \E k \in DOMAIN shows :
    /\ selectedIds' = toggleShow(selectedIds, shows[k].id)
    /\ out' = [op |-> "toggleShow", prev |-> selectedIds, id |-> shows[k].id]
    /\ UNCHANGED <<shows, writers, links, intersections, args>>

\* add-to-Venn from another view, through the handler of App
HandleAddToVenn ==
  \E k \in DOMAIN shows :
    /\ selectedIds' = handleAddToVenn(selectedIds, shows[k].id)
    /\ out' = [op |-> "handleAddToVenn", prev |-> selectedIds,
               id |-> shows[k].id]
    /\ UNCHANGED <<shows, writers, links, intersections, args>>

\* add-to-Venn from the writer modal when no handler was passed
AddToVenn ==
  \E k \in DOMAIN shows :
    /\ selectedIds' = addToVenn(selectedIds, shows[k].id)
    /\ out' = [op |-> "onAddToVenn", prev |-> selectedIds, id |-> shows[k].id]
    /\ UNCHANGED <<shows, writers, links, intersections, args>>

NextSelect ==
  \/ ClickShow
  \/ HandleAddToVenn
  \/ AddToVenn

SpecSelect == InitSelect /\ [][NextSelect]_vars

(***************************************************************************)
(* The graph builder over a snapshot whose links carry episode counts.     *)
(***************************************************************************)
InitGraph ==
  /\ Snapshot(GraphLinks, EpisodeCounts)
  /\ selectedIds = <<>>
  /\ intersections = <<>>
  /\ args = NoArgs
  /\ out = NoOut

BuildBipartite ==
  /\ out = NoOut
  /\ out' = [op |-> "buildBipartiteGraph",
             val |-> buildBipartiteGraph(shows, writers, links)]
  /\ Frame

NextGraph == BuildBipartite

SpecGraph == InitGraph /\ [][NextGraph]_vars

(***************************************************************************)
(* The work-to-work overlap graph over a snapshot of up to OverlapShows    *)
(* shows.                                                                  *)
(***************************************************************************)
InitOverlap ==
  /\ \E n \in 0..OverlapShows : shows = Table(n, Show)
  /\ writers = Table(OverlapWriters, Writer)
  /\ links \in BoundedSeq(LinkSet(OverlapShows, OverlapWriters, {Null}),
                          OverlapLinks)
  /\ selectedIds = <<>>
  /\ intersections = <<>>
  /\ args = NoArgs
  /\ out = NoOut

BuildShowOverlap ==
  /\ out = NoOut
  /\ out' = [op |-> "buildShowOverlapGraph",
             works |-> enrichShowsWithWriters(shows, writers, links),
             val |-> buildShowOverlapGraph(shows, writers, links)]
  /\ Frame

NextOverlap == BuildShowOverlap

SpecOverlap == InitOverlap /\ [][NextOverlap]_vars

(***************************************************************************)
(* The overlap graph of a snapshot with its unconnected works removed; the *)
(* last writer the links may name can be absent from the writers.          *)
(***************************************************************************)
InitConnected ==
  /\ \E n \in 0..OverlapShows : shows = Table(n, Show)
  /\ \E n \in {OverlapWriters - 1, OverlapWriters} :
       writers = Table(n, Writer)
  /\ links \in BoundedSeq(LinkSet(OverlapShows, OverlapWriters, {Null}),
                          OverlapLinks)
  /\ selectedIds = <<>>
  /\ intersections = <<>>
  /\ args = NoArgs
  /\ out = NoOut

\* filterConnectedNodes(buildShowOverlapGraph(shows, writers, links))
ConnectedOverlap ==
  /\ out = NoOut
  /\ \E graph \in {buildShowOverlapGraph(shows, writers, links)} :
       out' = [op |-> "filterConnectedNodes", graph |-> graph,
               val |-> filterConnectedNodes(graph)]
  /\ Frame

NextConnected == ConnectedOverlap

SpecConnected == InitConnected /\ [][NextConnected]_vars

(***************************************************************************)
(* Node ids: parseNodeId called on a text, and on what createNodeId made.  *)
(* A text is a head, a separator and a tail of up to MaxTailLen            *)
(* characters.                                                             *)
(***************************************************************************)
NodeIdHeads ==
  {<<>>, TypeChars["show"], TypeChars["writer"],
   <<"S", "h", "o", "w">>, <<"S", "H", "O", "W">>,
   <<"W", "r", "i", "t", "e", "r">>, <<"a", "c", "t", "o", "r">>,
   <<"x", "-", "s", "h", "o", "w">>}

NodeIdSeparators == {<<>>, <<"-">>, <<"_">>}

NodeIdTailChars == {"0", "1", "7", "-", ".", "a"}

NodeIdTexts ==
  {head \o sep \o tail :
     head \in NodeIdHeads, sep \in NodeIdSeparators,
     tail \in BoundedSeq(NodeIdTailChars, MaxTailLen)}

InitParse ==
  /\ shows = <<>>
  /\ writers = <<>>
  /\ links = <<>>
  /\ selectedIds = <<>>
  /\ intersections = <<>>
  /\ \/ \E nodeId \in NodeIdTexts :
          args = [op |-> "parseNodeId", nodeId |-> nodeId]
     \/ \E type \in {"show", "writer"} :
          \E id \in (0 - MaxNodeId)..MaxNodeId :
            args = [op |-> "createNodeId", type |-> type, id |-> id]
  /\ out = NoOut

ParseNodeId ==
  /\ out = NoOut
  /\ args.op = "parseNodeId"
  /\ out' = [op |-> "parseNodeId", nodeId |-> args.nodeId,
             val |-> parseNodeId(args.nodeId)]
  /\ Frame

\* parseNodeId(createNodeId(type, id))
ParseCreatedNodeId ==
  /\ out = NoOut
  /\ args.op = "createNodeId"
  /\ \E nodeId \in {createNodeId(args.type, args.id)} :
       out' = [op |-> "parseCreatedNodeId", nodeId |-> nodeId,
               val |-> parseNodeId(nodeId)]
  /\ Frame

NextParse ==
  \/ ParseNodeId
  \/ ParseCreatedNodeId

SpecParse == InitParse /\ [][NextParse]_vars

(***************************************************************************)
(* The graph filters called on a graph: up to FilterNodes nodes with       *)
(* distinct ids, up to FilterEdges edges whose ends may be the same node   *)
(* or the id of no node of the graph.                                      *)
(***************************************************************************)
GraphNodes ==
  Range(buildBipartiteGraph(Table(2, Show), Table(1, Writer), <<>>).nodes)

EdgeWeights == {0, 2}

MinWeights == {-1, 1, 2, 3}

GraphEdges ==
  {[source |-> a.id, target |-> b.id, weight |-> w] :
     a \in GraphNodes, b \in GraphNodes, w \in EdgeWeights}

InitFilter ==
  /\ shows = <<>>
  /\ writers = <<>>
  /\ links = <<>>
  /\ selectedIds = <<>>
  /\ intersections = <<>>
  /\ \E nodes \in BoundedSeq(GraphNodes, FilterNodes) :
       /\ \A i \in DOMAIN nodes : \A j \in DOMAIN nodes :
            i # j => nodes[i].id # nodes[j].id
       /\ \E edges \in BoundedSeq(GraphEdges, FilterEdges) :
            args = [op |-> "filter",
                    graph |-> [nodes |-> nodes, edges |-> edges]]
  /\ out = NoOut

FilterConnectedNodes ==
  /\ out = NoOut
  /\ args.op = "filter"
  /\ out' = [op |-> "filterConnectedNodes",
             val |-> filterConnectedNodes(args.graph)]
  /\ Frame

FilterByWeight ==
  /\ out = NoOut
  /\ args.op = "filter"
  /\ \E minWeight \in MinWeights :
       out' = [op |-> "filterByWeight", minWeight |-> minWeight,
               val |-> filterByWeight(args.graph, minWeight)]
  /\ Frame

NextFilter ==
  \/ FilterConnectedNodes
  \/ FilterByWeight

SpecFilter == InitFilter /\ [][NextFilter]_vars

(***************************************************************************)
(* computeGraphStats called on a graph: a small graph with any edges       *)
(* (self-loops, ends that are no node, negative weights), or the bipartite *)
(* graph of a snapshot in which link k credits writer k on show k, both    *)
(* counted round the tables.                                               *)
(***************************************************************************)
StatWeights == {-5, 0, 3}

StatEdgeSet ==
  {[source |-> a.id, target |-> b.id, weight |-> w] :
     a \in GraphNodes, b \in GraphNodes, w \in StatWeights}

CreditLinks(n) ==
  [k \in 1..n |->
     ShowWriterLink(((k - 1) % StatShows) + 1, ((k - 1) % StatWriters) + 1,
                    Null)]

InitStats ==
  /\ shows = <<>>
  /\ writers = <<>>
  /\ links = <<>>
  /\ selectedIds = <<>>
  /\ intersections = <<>>
  /\ \/ \E nodes \in BoundedSeq(GraphNodes, StatNodes) :
          /\ \A i \in DOMAIN nodes : \A j \in DOMAIN nodes :
               i # j => nodes[i].id # nodes[j].id
          /\ \E edges \in BoundedSeq(StatEdgeSet, StatEdges) :
               args = [op |-> "computeGraphStats",
                       graph |-> [nodes |-> nodes, edges |-> edges]]
     \/ \E ns \in 0..StatShows : \E nw \in 0..StatWriters :
          \E nl \in 0..StatLinks :
            args = [op |-> "computeGraphStats",
                    graph |-> buildBipartiteGraph(Table(ns, Show),
                                Table(nw, Writer), CreditLinks(nl) \o <<>>)]
  /\ out = NoOut

ComputeGraphStats ==
  /\ out = NoOut
  /\ args.op = "computeGraphStats"
  /\ out' = [op |-> "computeGraphStats",
             val |-> computeGraphStats(args.graph)]
  /\ Frame

NextStats == ComputeGraphStats

SpecStats == InitStats /\ [][NextStats]_vars

(***************************************************************************)
(* The Venn component over a snapshot: the selection starts empty, a click *)
(* toggles a show and the component re-renders its regions.                *)
(***************************************************************************)
InitVenn ==
  /\ \E n \in 0..VennShows : shows = Table(n, Show)
  /\ writers = Table(VennWriters, Writer)
  /\ links \in BoundedSeq(LinkSet(VennShows, VennWriters, {Null}), VennLinks)
  /\ selectedIds = <<>>
  /\ intersections = <<>>
  /\ args = NoArgs
  /\ out = NoOut

enrichedShows == enrichShowsWithWriters(shows, writers, links)

selectedShows == selectedShowsOf(enrichedShows, selectedIds)

ToggleShow ==
  \E id \in IdSet(shows) :
    /\ selectedIds' = toggleShow(selectedIds, id)
    /\ \E sel \in {selectedShowsOf(enrichedShows, selectedIds')} :
         intersections' = getIntersections(sel)
    /\ UNCHANGED <<shows, writers, links, args, out>>

NextVenn == ToggleShow

SpecVenn == InitVenn /\ [][NextVenn]_vars

(***************************************************************************)
(* The Venn component in its two versions, driven by the same clicks:      *)
(* `intersections` holds the regions of the present version and `out` the  *)
(* regions of the first version.                                           *)
(***************************************************************************)
InitBoth ==
  /\ shows = Table(3, Show)
  /\ writers = Table(2, Writer)
  /\ links \in BoundedSeq(LinkSet(3, 2, {Null}), BothLinks)
  /\ selectedIds = <<>>
  /\ intersections = <<>>
  /\ args = NoArgs
  /\ out = NoOut

ToggleShowBoth ==
  \E id \in IdSet(shows) :
    /\ selectedIds' = toggleShow(selectedIds, id)
    /\ \E sel \in {selectedShowsOf(enrichedShows, selectedIds')} :
         /\ intersections' = getIntersections(sel)
         /\ out' = [op |-> "getIntersections", works |-> sel,
                    val |-> getIntersectionsPiecewise(sel)]
    /\ UNCHANGED <<shows, writers, links, args>>

NextBoth == ToggleShowBoth

SpecBoth == InitBoth /\ [][NextBoth]_vars

(***************************************************************************)
(* One render of the Venn component for a selection of up to MaxSelected   *)
(* shows.  selectedShows depends on the set of the selected ids only, so   *)
(* the selection is drawn in ascending order; the writer list of a show    *)
(* depends on the order of the links of that show only, so the links are   *)
(* drawn grouped by show.                                                  *)
(***************************************************************************)
InitRegions ==
  /\ shows = Table(MaxSelected, Show)
  /\ writers = Table(2, Writer)
  /\ links \in {ls \in BoundedSeq(LinkSet(MaxSelected, 2, {Null}),
                                  RegionLinks) :
                  \A k \in 1..(Len(ls) - 1) :
                    ls[k].showId <= ls[k + 1].showId}
  /\ \E S \in SUBSET (1..MaxSelected) :
       selectedIds = SelectSeq([k \in 1..MaxSelected |-> k],
                               LAMBDA k : k \in S)
  /\ intersections = <<>>
  /\ args = NoArgs
  /\ out = NoOut

Render ==
  /\ out = NoOut
  /\ \E sel \in {selectedShowsOf(enrichedShows, selectedIds)} :
       /\ intersections' = getIntersections(sel)
       /\ out' = [op |-> "getCirclePositions", works |-> sel,
                  val |-> getCirclePositions(sel)]
  /\ UNCHANGED <<shows, writers, links, selectedIds, args>>

NextRegions == Render

SpecRegions == InitRegions /\ [][NextRegions]_vars

(***************************************************************************)
(* getExclusiveSharedWriters called on its own: the "in" and the "out"     *)
(* list are lists of enriched works of the snapshot, in any order.         *)
(***************************************************************************)
InitExcl ==
  /\ shows = Table(MaxShows, Show)
  /\ writers = Table(MaxWriters, Writer)
  /\ links \in BoundedSeq(LinkSet(MaxShows, MaxWriters, {Null}), ExclLinks)
  /\ selectedIds = <<>>
  /\ intersections = <<>>
  /\ \E ess \in {enrichedShows} :
       \E ins \in InjectiveSeq(DOMAIN ess) :
         \E outs \in InjectiveSeq(DOMAIN ess) :
           args = [op |-> "getExclusiveSharedWriters",
                   showsIn |-> MapSeq(ins, LAMBDA k : ess[k]),
                   showsOut |-> MapSeq(outs, LAMBDA k : ess[k])]
  /\ out = NoOut

ExclusiveShared ==
  /\ out = NoOut
  /\ args.op = "getExclusiveSharedWriters"
  /\ out' = [op |-> "getExclusiveSharedWriters",
             val |-> getExclusiveSharedWriters(args.showsIn, args.showsOut)]
  /\ Frame

NextExcl == ExclusiveShared

SpecExcl == InitExcl /\ [][NextExcl]_vars

(***************************************************************************)
(* Properties of the core pipeline (specifications Spec, SpecGraph).       *)
(***************************************************************************)

\* C1: the shared-writer count of two enriched works does not depend on the
\* order of the arguments, and the overlap matrix is symmetric.
C1_SharedCountSymmetric ==
  out.op = "createOverlapMatrix" =>
    \A i \in DOMAIN out.works : \A j \in DOMAIN out.works :
      /\ countSharedWriters(out.works[i], out.works[j]) =
           countSharedWriters(out.works[j], out.works[i])
      /\ out.val[i][j] = out.val[j][i]

\* C2: the shared-writer count is the number of distinct contributor ids
\* that occur in both contributor lists.
C2_SharedCountDistinctIds ==
  out.op = "createOverlapMatrix" =>
    \A i \in DOMAIN out.works : \A j \in DOMAIN out.works :
      countSharedWriters(out.works[i], out.works[j]) =
        Cardinality(IdSet(out.works[i].writers)
                      \cap IdSet(out.works[j].writers))

\* C3: the overlap matrix is square, one row and column per work, and its
\* diagonal entry is the length of the work's contributor list.
C3_MatrixDiagonal ==
  out.op = "createOverlapMatrix" =>
    /\ Len(out.val) = Len(out.works)
    /\ \A i \in DOMAIN out.works :
         /\ Len(out.val[i]) = Len(out.works)
         /\ out.val[i][i] = Len(out.works[i].writers)

C3_Witness ==
  /\ out.op = "createOverlapMatrix"
  /\ \E i \in DOMAIN out.works :
       /\ Len(out.works[i].writers) = 2
       /\ Cardinality(IdSet(out.works[i].writers)) = 1
       /\ out.val[i][i] = 2

\* C4: every element of a derived list is a member of the supplied
\* collection of the other side; unresolved links contribute nothing.
C4_OrphansDropped ==
  /\ out.op = "enrichShowsWithWriters" =>
       \A i \in DOMAIN out.val : \A k \in DOMAIN out.val[i].writers :
         out.val[i].writers[k] \in Range(writers)
  /\ out.op = "enrichWritersWithShows" =>
       \A i \in DOMAIN out.val : \A k \in DOMAIN out.val[i].shows :
         out.val[i].shows[k] \in Range(shows)

C4_Witness ==
  /\ out.op = "enrichShowsWithWriters"
  /\ \E i \in DOMAIN shows :
       /\ \E k \in DOMAIN links :
            /\ links[k].showId = shows[i].id
            /\ links[k].writerId \notin IdSet(writers)
       /\ \E k \in DOMAIN links :
            /\ links[k].showId = shows[i].id
            /\ links[k].writerId \in IdSet(writers)
       /\ Len(out.val[i].writers) = 1

\* C5: enrichment returns one element per primary entity, in the same
\* order, with every original field unchanged and one field added.
C5_EnrichPreservesEntities ==
  /\ out.op = "enrichShowsWithWriters" =>
       /\ Len(out.val) = Len(shows)
       /\ \A i \in DOMAIN shows :
            /\ DOMAIN out.val[i] = (DOMAIN shows[i]) \cup {"writers"}
            /\ \A f \in DOMAIN shows[i] : out.val[i][f] = shows[i][f]
  /\ out.op = "enrichWritersWithShows" =>
       /\ Len(out.val) = Len(writers)
       /\ \A i \in DOMAIN writers :
            /\ DOMAIN out.val[i] = (DOMAIN writers[i]) \cup {"shows"}
            /\ \A f \in DOMAIN writers[i] : out.val[i][f] = writers[i][f]

C5_Witness ==
  /\ out.op = "enrichShowsWithWriters"
  /\ Len(shows) = 2
  /\ Len(out.val) = 2
  /\ out.val[1].writers # <<>>
  /\ out.val[2].title = "Show B"

\* The entity of a collection with a given id (ids are unique).
EntityWithId(entities, id) == CHOOSE e \in Range(entities) : e.id = id

\* C6: a derived list has one entry per link that references the entity and
\* resolves on the other side, in link order, duplicates kept.
C6_DerivedListFollowsLinks ==
  /\ out.op = "enrichShowsWithWriters" =>
       \A i \in DOMAIN shows :
         out.val[i].writers =
           MapSeq(SelectSeq(links, LAMBDA l :
                    /\ l.showId = shows[i].id
                    /\ l.writerId \in IdSet(writers)),
                  LAMBDA l : EntityWithId(writers, l.writerId))
  /\ out.op = "enrichWritersWithShows" =>
       \A i \in DOMAIN writers :
         out.val[i].shows =
           MapSeq(SelectSeq(links, LAMBDA l :
                    /\ l.writerId = writers[i].id
                    /\ l.showId \in IdSet(shows)),
                  LAMBDA l : EntityWithId(shows, l.showId))

C6_Witness ==
  /\ out.op = "enrichShowsWithWriters"
  /\ \E i \in DOMAIN out.val :
       MapSeq(out.val[i].writers, LAMBDA w : w.id) = <<2, 1, 2>>

\* The show ids the links of the snapshot name for a writer id.
LinkedShowIds(writerId) ==
  {links[k].showId : k \in {j \in DOMAIN links : links[j].writerId = writerId}}

\* C24: findOverlappingWriters reports a writer, at most once, exactly when
\* the writer is in the writers collection and its links name at least two
\* distinct show ids; the shows of an entry are the resolved shows, each
\* once, and showCount is their number.
C24_OverlappingWriters ==
  out.op = "findOverlappingWriters" =>
    /\ \A id \in FindWriterIds \cup IdSet(writers) :
         Cardinality({k \in DOMAIN out.val : out.val[k].writer.id = id}) =
           IF id \in IdSet(writers) /\ Cardinality(LinkedShowIds(id)) >= 2
             THEN 1 ELSE 0
    /\ \A k \in DOMAIN out.val :
         /\ out.val[k].writer \in Range(writers)
         /\ Range(out.val[k].shows) =
              {show \in Range(shows) :
                 show.id \in LinkedShowIds(out.val[k].writer.id)}
         /\ Cardinality(Range(out.val[k].shows)) = Len(out.val[k].shows)
         /\ out.val[k].showCount = Len(out.val[k].shows)

C24_Witness ==
  /\ out.op = "findOverlappingWriters"
  /\ Len(links) = 4
  /\ links[1] = links[2]
  /\ links[1].writerId = 1
  /\ links[3].writerId = 1
  /\ links[3].showId \notin IdSet(shows)
  /\ links[4].writerId \notin IdSet(writers)
  /\ Len(out.val) = 1
  /\ out.val[1].writer.id = 1
  /\ out.val[1].showCount = 1

\* C25: the list findOverlappingWriters returns is ordered by showCount,
\* non-increasing: the showCount of an entry is greater than or equal to
\* the showCount of the entry after it.
C25_SortedByShowCount ==
  out.op = "findOverlappingWriters" =>
    \A k \in 1..(Len(out.val) - 1) :
      out.val[k].showCount >= out.val[k + 1].showCount

C25_Witness ==
  /\ out.op = "findOverlappingWriters"
  /\ Len(links) = 4
  /\ links[1].writerId = 1
  /\ Len(out.val) = 2
  /\ out.val[1].writer.id = 2
  /\ out.val[1].showCount = 2
  /\ out.val[2].writer.id = 1
  /\ out.val[2].showCount = 1

\* C26: getSharedWriters(A, B) returns exactly the entries of the
\* contributor list of B whose id occurs in the contributor list of A, as
\* the objects of B and in the order of B; its length is
\* countSharedWriters(A, B).
C26_SharedWritersOfB ==
  out.op = "getSharedWriters" =>
    /\ out.val =
         SelectSeq(args.showB.writers, LAMBDA w :
           \E k \in DOMAIN args.showA.writers :
             args.showA.writers[k].id = w.id)
    /\ Len(out.val) = countSharedWriters(args.showA, args.showB)

C26_Witness ==
  /\ out.op = "getSharedWriters"
  /\ args.showA.writers = <<Writer(1), Writer(2)>>
  /\ args.showB.writers = <<Writer(2), Extend(Writer(1), "bio", "Bio in B")>>
  /\ out.val = args.showB.writers
  /\ out.val[2] # args.showA.writers[1]

C28_SelectionBounded ==
  /\ Len(selectedIds) <= 5
  /\ \A i \in DOMAIN selectedIds : \A j \in DOMAIN selectedIds :
       i # j => selectedIds[i] # selectedIds[j]
  /\ out.op \in {"toggleShow", "handleAddToVenn", "onAddToVenn"} =>
       IF out.id \in Range(out.prev)
         THEN out.op = "toggleShow" =>
                selectedIds = SelectSeq(out.prev, LAMBDA x : x # out.id)
         ELSE IF Len(out.prev) < 5
           THEN selectedIds = Append(out.prev, out.id)
           ELSE selectedIds = Append(Tail(out.prev), out.id)

C28_Witness ==
  /\ out.op = "toggleShow"
  /\ out.prev = <<3, 1, 4, 2, 5>>
  /\ out.id = 6
  /\ selectedIds = <<1, 4, 2, 5, 6>>

\* C10: the bipartite graph has one edge per link, in link order, from
\* "writer-<writerId>" to "show-<showId>", whether or not the ids resolve.
C10_EdgePerLink ==
  out.op = "buildBipartiteGraph" =>
    /\ Len(out.val.edges) = Len(links)
    /\ \A k \in DOMAIN links :
         /\ out.val.edges[k].source =
              <<"w", "r", "i", "t", "e", "r", "-">>
                \o NumberToString(links[k].writerId)
         /\ out.val.edges[k].target =
              <<"s", "h", "o", "w", "-">> \o NumberToString(links[k].showId)

C10_Witness ==
  /\ out.op = "buildBipartiteGraph"
  /\ Len(links) = 2
  /\ links[1] = links[2]
  /\ links[1].showId \notin IdSet(shows)
  /\ links[1].writerId \in IdSet(writers)
  /\ Len(out.val.edges) = 2
  /\ out.val.edges[1] = out.val.edges[2]
  /\ out.val.edges[1].target \notin IdSet(out.val.nodes)
  /\ out.val.edges[1].source \in IdSet(out.val.nodes)

\* C11: the weight of the edge of a link is the link's episode count when
\* the count is present, a present count of 0 included, and the default 1
\* only when the count is null.
C11_WeightIsEpisodeCount ==
  out.op = "buildBipartiteGraph" =>
    \A k \in DOMAIN links :
      /\ links[k].episodeCount # Null =>
           out.val.edges[k].weight = links[k].episodeCount[1]
      /\ links[k].episodeCount = Null => out.val.edges[k].weight = 1

C11_Witness ==
  /\ out.op = "buildBipartiteGraph"
  /\ Len(links) = 2
  /\ links[1].episodeCount = Some(0)
  /\ links[2].episodeCount = Null
  /\ out.val.edges[1].weight = 0
  /\ out.val.edges[2].weight = 1

\* The edges of the overlap graph that join the nodes of works i and j.
EdgesBetween(i, j) ==
  {k \in DOMAIN out.val.edges :
     {out.val.edges[k].source, out.val.edges[k].target} =
       {out.val.nodes[i].id, out.val.nodes[j].id}}

\* C12: the overlap graph has one show-typed node per work and exactly one
\* edge for each unordered pair of distinct works whose countSharedWriters
\* is greater than zero, weighted by that count; it has no self-edge, no
\* edge for a pair that shares nobody and never two edges for one pair.
C12_OverlapGraphEdges ==
  out.op = "buildShowOverlapGraph" =>
    /\ Len(out.val.nodes) = Len(out.works)
    /\ \A i \in DOMAIN out.works :
         /\ out.val.nodes[i].type = "show"
         /\ out.val.nodes[i].id = createNodeId("show", out.works[i].id)
         /\ out.val.nodes[i].data = out.works[i]
    /\ \A k \in DOMAIN out.val.edges :
         /\ out.val.edges[k].source # out.val.edges[k].target
         /\ \E i \in DOMAIN out.works : \E j \in DOMAIN out.works :
              k \in EdgesBetween(i, j)
    /\ \A i \in DOMAIN out.works : \A j \in DOMAIN out.works :
         i # j =>
           IF countSharedWriters(out.works[i], out.works[j]) > 0
             THEN /\ Cardinality(EdgesBetween(i, j)) = 1
                  /\ \A k \in EdgesBetween(i, j) :
                       out.val.edges[k].weight =
                         countSharedWriters(out.works[i], out.works[j])
             ELSE EdgesBetween(i, j) = {}

\* C13: for a type in {show, writer} and a non-negative integer id,
\* parsing the node id that createNodeId made gives back the type and the
\* id.
C13_NodeIdRoundTrip ==
  (out.op = "parseCreatedNodeId" /\ args.id >= 0) =>
    out.val = [type |-> args.type, id |-> args.id]

C13_Witness ==
  /\ out.op = "parseCreatedNodeId"
  /\ args.type = "writer"
  /\ args.id = 120
  /\ out.nodeId = <<"w", "r", "i", "t", "e", "r", "-", "1", "2", "0">>
  /\ out.val = [type |-> "writer", id |-> 120]

\* A text that is exactly "show-" or "writer-" followed by one or more
\* decimal digits.
IsNodeIdText(s) ==
  \E prefix \in {<<"s", "h", "o", "w", "-">>,
                  <<"w", "r", "i", "t", "e", "r", "-">>} :
    /\ Len(s) > Len(prefix)
    /\ \A k \in DOMAIN prefix : s[k] = prefix[k]
    /\ \A k \in (Len(prefix) + 1)..Len(s) :
         s[k] \in {"0", "1", "2", "3", "4", "5", "6", "7", "8", "9"}

\* C14: parseNodeId returns null, and no partial result, for every text
\* that is not exactly "show-" or "writer-" followed by one or more decimal
\* digits; the node id of a negative id is such a text.
C14_MalformedNodeIdIsNull ==
  /\ out.op \in {"parseNodeId", "parseCreatedNodeId"} =>
       (~IsNodeIdText(out.nodeId) => out.val = NullObject)
  /\ (out.op = "parseCreatedNodeId" /\ args.id < 0) => out.val = NullObject

C14_Witness ==
  /\ out.op = "parseNodeId"
  /\ out.nodeId = <<"s", "h", "o", "w", "-", "1", ".", "7">>
  /\ out.val = NullObject

(***************************************************************************)
(* Properties of the graph filters (specification SpecFilter).             *)
(***************************************************************************)

\* The edges of a graph that end (as source or as target) at node id.
EdgesAt(edges, id) ==
  {k \in DOMAIN edges : edges[k].source = id \/ edges[k].target = id}

\* C15: filterConnectedNodes keeps exactly the nodes whose id is the source
\* or the target of at least one edge, a self-loop included, in their
\* original order, and returns the edges unchanged, the edges whose ends
\* match no node included.
C15_ConnectedNodesKept ==
  out.op = "filterConnectedNodes" =>
    /\ out.val.nodes =
         SelectSeq(args.graph.nodes, LAMBDA node :
           EdgesAt(args.graph.edges, node.id) # {})
    /\ out.val.edges = args.graph.edges

C15_Witness ==
  /\ out.op = "filterConnectedNodes"
  /\ Len(args.graph.nodes) = 2
  /\ Len(args.graph.edges) = 2
  /\ args.graph.edges[1].source = args.graph.nodes[2].id
  /\ args.graph.edges[1].target = args.graph.nodes[2].id
  /\ args.graph.edges[2].source \notin IdSet(args.graph.nodes)
  /\ args.graph.edges[2].target \notin IdSet(args.graph.nodes)
  /\ out.val.nodes = <<args.graph.nodes[2]>>
  /\ out.val.edges = args.graph.edges

\* C16: filterByWeight(g, m) returns exactly the edges of g with weight
\* >= m and exactly the nodes of g that end a kept edge: it is
\* filterConnectedNodes of g with its edges restricted to weight >= m.
C16_WeightThreshold ==
  out.op = "filterByWeight" =>
    \E kept \in {SelectSeq(args.graph.edges,
                    LAMBDA e : ~(e.weight < out.minWeight))} :
      /\ out.val.edges = kept
      /\ out.val.nodes =
           SelectSeq(args.graph.nodes, LAMBDA node :
             EdgesAt(kept, node.id) # {})
      /\ out.val =
           filterConnectedNodes([nodes |-> args.graph.nodes, edges |-> kept])

C16_Witness ==
  /\ out.op = "filterByWeight"
  /\ out.minWeight = 2
  /\ Len(args.graph.nodes) = 2
  /\ Len(args.graph.edges) = 2
  /\ args.graph.edges[1].weight = 0
  /\ args.graph.edges[1].source = args.graph.nodes[1].id
  /\ args.graph.edges[1].target = args.graph.nodes[1].id
  /\ args.graph.edges[2].weight = 2
  /\ args.graph.edges[2].source = args.graph.nodes[2].id
  /\ args.graph.edges[2].target = args.graph.nodes[2].id
  /\ out.val = [nodes |-> <<args.graph.nodes[2]>>,
                edges |-> <<args.graph.edges[2]>>]

\* C17: the filters are idempotent: filtering the result of
\* filterConnectedNodes again changes nothing, and neither
\* filterByWeight with the same threshold nor filterConnectedNodes changes
\* the result of filterByWeight.
C17_FiltersIdempotent ==
  /\ out.op = "filterConnectedNodes" =>
       filterConnectedNodes(out.val) = out.val
  /\ out.op = "filterByWeight" =>
       /\ filterByWeight(out.val, out.minWeight) = out.val
       /\ filterConnectedNodes(out.val) = out.val

C17_Witness ==
  /\ out.op = "filterByWeight"
  /\ Len(out.val.edges) = 1
  /\ Len(args.graph.edges) = 2
  /\ Len(out.val.nodes) = 1
  /\ Len(args.graph.nodes) = 2
  /\ EdgesAt(args.graph.edges, args.graph.nodes[1].id) # {}
  /\ EdgesAt(args.graph.edges, args.graph.nodes[2].id) # {}
  /\ filterByWeight(out.val, out.minWeight) = out.val

\* C18: a filtered graph has no more nodes and no more edges than the
\* graph it was made from, and each of its nodes and edges is a node or an
\* edge of that graph.
C18_FiltersOnlyRemove ==
  out.op \in {"filterConnectedNodes", "filterByWeight"} =>
    /\ Len(out.val.nodes) <= Len(args.graph.nodes)
    /\ Len(out.val.edges) <= Len(args.graph.edges)
    /\ Range(out.val.nodes) \subseteq Range(args.graph.nodes)
    /\ Range(out.val.edges) \subseteq Range(args.graph.edges)

C18_Witness ==
  /\ out.op = "filterConnectedNodes"
  /\ Len(args.graph.nodes) = 2
  /\ Len(args.graph.edges) = 2
  /\ args.graph.edges[1] = args.graph.edges[2]
  /\ args.graph.edges[1].source = args.graph.nodes[1].id
  /\ args.graph.edges[1].target = args.graph.nodes[1].id
  /\ Len(out.val.nodes) = 1
  /\ Len(out.val.edges) = 2

\* C19: filtering is monotone in the threshold: filterByWeight(g, k) has
\* at most as many edges and at most as many nodes as
\* filterByWeight(g, k - 1).
C19_ThresholdMonotone ==
  out.op = "filterByWeight" =>
    \E below \in {filterByWeight(args.graph, out.minWeight - 1)} :
      /\ Len(out.val.edges) <= Len(below.edges)
      /\ Len(out.val.nodes) <= Len(below.nodes)

C19_Witness ==
  /\ out.op = "filterByWeight"
  /\ out.minWeight = 1
  /\ Len(out.val.edges) = 1
  /\ Len(out.val.nodes) = 1
  /\ Len(filterByWeight(args.graph, 0).edges) = 2
  /\ Len(filterByWeight(args.graph, 0).nodes) = 2

\* Every end of every edge of a graph is the id of a node of the graph.
EndsAreNodes(graph) ==
  \A k \in DOMAIN graph.edges :
    /\ graph.edges[k].source \in IdSet(graph.nodes)
    /\ graph.edges[k].target \in IdSet(graph.nodes)

\* C20: when every edge end of a graph is the id of one of its nodes, the
\* same is true of the graph after filterConnectedNodes or filterByWeight:
\* no filter leaves an edge that points at a node it removed.
C20_FiltersKeepEdgeEnds ==
  (out.op \in {"filterConnectedNodes", "filterByWeight"}
     /\ EndsAreNodes(args.graph)) => EndsAreNodes(out.val)

C20_Witness ==
  /\ out.op = "filterByWeight"
  /\ EndsAreNodes(args.graph)
  /\ Len(args.graph.edges) = 2
  /\ Len(out.val.edges) = 1
  /\ Len(args.graph.nodes) = 2
  /\ Len(out.val.nodes) = 1
  /\ args.graph.nodes[1].id \in connectedIds(args.graph.edges)
  /\ args.graph.nodes[1] \notin Range(out.val.nodes)

\* The ids of the writers of the snapshot that a link credits on a show.
CreditedOn(showId) ==
  {links[k].writerId : k \in {j \in DOMAIN links : links[j].showId = showId}}
    \cap IdSet(writers)

\* C23: a work is a node of the overlap graph after filterConnectedNodes
\* exactly when it shares at least one resolvable contributor with a
\* different work of the collection; a work with no links never is.
C23_ConnectedWorks ==
  out.op = "filterConnectedNodes" =>
    /\ \A i \in DOMAIN shows :
         (\E k \in DOMAIN out.val.nodes :
            /\ out.val.nodes[k].id = createNodeId("show", shows[i].id)
            /\ out.val.nodes[k].data.id = shows[i].id)
         <=> (\E j \in DOMAIN shows :
                /\ j # i
                /\ CreditedOn(shows[i].id) \cap CreditedOn(shows[j].id) # {})
    /\ \A k \in DOMAIN out.val.nodes :
         \E i \in DOMAIN shows : out.val.nodes[k].data.id = shows[i].id

C23_Witness ==
  /\ out.op = "filterConnectedNodes"
  /\ Len(shows) = 3
  /\ Len(writers) = 1
  /\ Len(links) = 3
  /\ \E k \in DOMAIN links :
       links[k].showId = 3 /\ links[k].writerId \notin IdSet(writers)
  /\ Len(out.graph.nodes) = 3
  /\ MapSeq(out.val.nodes, LAMBDA n : n.data.id) = <<1, 2>>

(***************************************************************************)
(* Properties of the graph statistics (specification SpecStats).           *)
(***************************************************************************)

\* The product avgDegree * nodeCount of the claim, as JavaScript computes it.
RECURSIVE Pow2(_)
Pow2(k) == IF k = 0 THEN 1 ELSE 2 * Pow2(k - 1)

\* the digits of limbs * n, the top one not reduced: digits holds those
\* after position k, carry what they carried over
RECURSIVE TimesDigits(_, _, _, _, _)
TimesDigits(limbs, n, k, carry, digits) ==
  IF k = 0 THEN digits
  ELSE LET v == limbs[k] * n + carry
       IN IF k = 1 THEN <<v>> \o digits
          ELSE TimesDigits(limbs, n, k - 1, v \div LimbBase,
                           <<v % LimbBase>> \o digits)

\* the number x * n for a number x and an integer n >= 1
Times(x, n) ==
  IF x = DoubleZero THEN DoubleZero
  ELSE LET product == TimesDigits(x.limbs, n, Len(x.limbs), 0, <<>>)
           shift == LeadingExponent(product[1], 1)
           unit == Pow2(shift)
           limbs == [k \in DOMAIN product |->
                       IF k = 1 THEN product[1] \div unit
                       ELSE ((product[k - 1] % unit) * LimbBase + product[k])
                              \div unit]
           low == product[Len(product)] % unit
       IN Rounded(limbs, x.exp + shift,
                  \/ 2 * low > unit
                  \/ (2 * low = unit /\ limbs[Len(limbs)] % 2 = 1))

\* the number of an integer n >= 0
Number(n) == Divide(n, 1)

\* C21: avgDegree times the node count equals twice the edge count whenever
\* the graph has at least one node, and avgDegree is 0 when the graph has
\* no nodes, even if it has edges.
C21_AvgDegreeTimesNodes ==
  out.op = "computeGraphStats" =>
    IF out.val.nodeCount >= 1
      THEN Times(out.val.avgDegree, out.val.nodeCount) =
             Number(2 * out.val.edgeCount)
      ELSE out.val.avgDegree = DoubleZero

\* C21 (amended): avgDegree is the number the division of the total number
\* of edge ends (two per edge, a self-loop counted twice, ends that match
\* no node included) by the node count yields, rounded as a double, when
\* the graph has at least one node, and 0 when the graph has no nodes, even
\* if it has edges.
C21_AvgDegreeIsQuotient ==
  out.op = "computeGraphStats" =>
    out.val.avgDegree =
      IF Len(args.graph.nodes) >= 1
        THEN Divide(2 * Len(args.graph.edges), Len(args.graph.nodes))
        ELSE DoubleZero

C21_Witness ==
  /\ out.op = "computeGraphStats"
  /\ Len(args.graph.nodes) = 11
  /\ Len(args.graph.edges) = 15
  /\ out.val.avgDegree = Divide(30, 11)
  /\ Times(out.val.avgDegree, 11) # Number(30)

\* C22: maxWeight is the maximum of 0 and all edge weights: 0 for a graph
\* with no edges or with negative weights only, and never negative.
C22_MaxWeightFloored ==
  out.op = "computeGraphStats" =>
    /\ out.val.maxWeight >= 0
    /\ \A k \in DOMAIN args.graph.edges :
         args.graph.edges[k].weight <= out.val.maxWeight
    /\ \/ out.val.maxWeight = 0
       \/ \E k \in DOMAIN args.graph.edges :
            args.graph.edges[k].weight = out.val.maxWeight

C22_Witness ==
  /\ out.op = "computeGraphStats"
  /\ Len(args.graph.edges) = 2
  /\ \A k \in DOMAIN args.graph.edges : args.graph.edges[k].weight = -5
  /\ out.val.maxWeight = 0

(***************************************************************************)
(* Properties of the exclusive decomposition (SpecExcl, SpecVenn).         *)
(***************************************************************************)

SharedIds(sel) ==
  {c \in AllWriterIds(sel) :
     Cardinality({k \in DOMAIN sel : c \in IdSet(sel[k].writers)}) >= 2}

\* The reported regions that hold contributor id c.
RegionsOf(c) ==
  {r \in DOMAIN intersections : c \in IdSet(intersections[r].writers)}

\* C8: for 2 to 5 selected works the reported regions partition the
\* contributors that are in at least two selected works: each of them is in
\* exactly one region, and a region holds nobody else.
C8_RegionsPartitionShared ==
  \A sel \in {selectedShows} :
    (Len(sel) >= 2 /\ Len(sel) <= 5) =>
      \A c \in AllWriterIds(sel) :
        Cardinality(RegionsOf(c)) = IF c \in SharedIds(sel) THEN 1 ELSE 0

\* The works of a selection at the positions S, in selection order.
WorksAt(sel, S) == FilterByIndex(sel, LAMBDA idx : idx \in S)

\* A subset of the selection is reported: a single work through the unique
\* writers of its circle, two or more works through a region card.
Reported(sel, S) ==
  IF Cardinality(S) = 1
    THEN \E i \in S :
           getUniqueWriters(sel[i], WorksAt(sel, (DOMAIN sel) \ S)) # <<>>
    ELSE \E r \in DOMAIN intersections :
           intersections[r].shows = WorksAt(sel, S)

\* C9: every non-empty subset S of the selection is reported exactly when
\* the exclusive intersection of S against the rest of the selection is
\* non-empty.
C9_EverySubsetReported ==
  \A sel \in {selectedShows} :
    \A S \in (SUBSET DOMAIN sel) \ {{}} :
      Reported(sel, S) <=>
        getExclusiveSharedWriters(
          WorksAt(sel, S), WorksAt(sel, (DOMAIN sel) \ S)) # <<>>


\* The regions of a decomposition: the works of each region and the set of
\* the contributor ids in it, in the order reported.
RegionList(regions) ==
  MapSeq(regions, LAMBDA r : [shows |-> r.shows, ids |-> IdSet(r.writers)])

\* C29: for selections of exactly 2 and exactly 3 works the general
\* decomposition reports the same regions, in the same order, with the same
\* set of contributor ids in each region as the first, piecewise version.
C29_GeneralRefinesPiecewise ==
  (out.op = "getIntersections" /\ Len(out.works) \in {2, 3}) =>
    RegionList(intersections) = RegionList(out.val)

C29_Witness ==
  /\ out.op = "getIntersections"
  /\ Len(out.works) = 3
  /\ Len(out.val) = 2
  /\ MapSeq(out.val[1].shows, LAMBDA w : w.id) = <<1, 2>>
  /\ MapSeq(out.val[2].shows, LAMBDA w : w.id) = <<1, 3>>
  /\ MapSeq(out.val[1].writers, LAMBDA w : w.id) = <<1>>
  /\ MapSeq(out.val[2].writers, LAMBDA w : w.id) = <<2>>
  /\ Len(intersections) = 2
  /\ intersections[2].key = PairKey(Show(1), Show(3))


\* C30: for every selection of 2 to 5 works the reported regions are
\* pairwise disjoint by contributor id, and no contributor of a reported
\* region is among the unique contributors reported for a selected work.
C30_RegionsDisjoint ==
  (out.op = "getCirclePositions" /\ Len(out.works) >= 2
     /\ Len(out.works) <= 5) =>
    /\ \A r \in DOMAIN intersections : \A q \in DOMAIN intersections :
         r # q => IdSet(intersections[r].writers)
                    \cap IdSet(intersections[q].writers) = {}
    /\ \A r \in DOMAIN intersections : \A i \in DOMAIN out.val :
         IdSet(intersections[r].writers)
           \cap IdSet(out.val[i].uniqueWriters) = {}

C30_Witness ==
  /\ out.op = "getCirclePositions"
  /\ Len(out.works) = 5
  /\ Len(intersections) = 2
  /\ MapSeq(intersections[1].shows, LAMBDA w : w.id) = <<1, 3>>
  /\ IdSet(intersections[1].writers) = {2}
  /\ MapSeq(intersections[2].shows, LAMBDA w : w.id) = <<2, 4>>
  /\ IdSet(intersections[2].writers) = {1}
  /\ \A i \in DOMAIN out.val : out.val[i].uniqueWriters = <<>>

====
